---------------------------- MODULE Spec2Model ----------------------------
(***************************************************************************)
(* Model of picard/formats/vorbis.py: the Vorbis-comment load and save     *)
(* handlers (VCommentFile._load, VCommentFile._save, _get_tag_name) and    *)
(* the Ogg container detector (_select_ogg_type).                          *)
(*                                                                         *)
(* Text is modelled as a sequence of one-character strings, so that        *)
(* slicing, prefix tests, case conversion and concatenation are computed   *)
(* as the code computes them.  A container (file) is its raw tag           *)
(* dictionary, its native picture list and its format name.  Raw tag names *)
(* are case-insensitive: the dictionary is keyed by the lower-cased name,  *)
(* which is also what iteration over it yields.                            *)
(***************************************************************************)
EXTENDS Integers, Sequences, FiniteSets, TLC

VARIABLES
    file,      \* the container: [tags, pictures, format]
    cfg,       \* config.setting: [email, steps, clear]
    md,        \* the metadata record handed to _save: [fields, images, deleted]
    out,       \* what the last _load returned: [status, fields, images]
    prevOut,   \* what the _load before it returned
    prev,      \* the container as it was before the last _save
    hist,      \* the operations performed so far, oldest first
    options,   \* _select_ogg_type: the candidate list, [name, score] each
    selected   \* _select_ogg_type: [status, name] of the last detection

vars == <<file, cfg, md, out, prevOut, prev, hist, options, selected>>

----------------------------------------------------------------------------
(* Bounds of the model *)

MaxVal == 2        \* longest value of a performer/comment field with a role
MaxRole == 2       \* longest role
MaxBare == 4       \* longest value of a role-less performer/comment field
MaxList == 3       \* longest raw value list in the deletion scenarios
MaxPics == 1       \* most pictures per picture source of a container
MaxImgs == 2       \* most pending images of a record
MaxOps == 4        \* most operations in one run
MaxOptions == 3    \* most candidates handed to the detector
MaxScore == 2      \* largest probe score
MaxSteps == 6      \* largest rating_steps
MaxDecode == 2     \* most values per picture source in the decoding scenarios

----------------------------------------------------------------------------
(* Text *)

LowerLetters == <<"a", "b", "c", "d", "e", "f", "g", "h", "i", "j", "k", "l", "m",
                  "n", "o", "p", "q", "r", "s", "t", "u", "v", "w", "x", "y", "z">>
UpperLetters == <<"A", "B", "C", "D", "E", "F", "G", "H", "I", "J", "K", "L", "M",
                  "N", "O", "P", "Q", "R", "S", "T", "U", "V", "W", "X", "Y", "Z">>

IsIn(c, s) == \E i \in 1..Len(s) : s[i] = c
IndexIn(c, s) == CHOOSE i \in 1..Len(s) : s[i] = c

UpperChar(c) == IF IsIn(c, LowerLetters) THEN UpperLetters[IndexIn(c, LowerLetters)] ELSE c
LowerChar(c) == IF IsIn(c, UpperLetters) THEN LowerLetters[IndexIn(c, UpperLetters)] ELSE c

\* str.upper()
Upper(s) == [i \in 1..Len(s) |-> UpperChar(s[i])]
\* the lower-cased key under which the container holds and yields a raw name
Lower(s) == [i \in 1..Len(s) |-> LowerChar(s[i])]

StartsWith(s, p) == Len(s) >= Len(p) /\ SubSeq(s, 1, Len(p)) = p
EndsWith(s, p) == Len(s) >= Len(p) /\ SubSeq(s, Len(s) - Len(p) + 1, Len(s)) = p
From(s, i) == SubSeq(s, i, Len(s))

\* position of the first c in s, 0 when there is none
Find(s, c) == IF IsIn(c, s) THEN CHOOSE i \in 1..Len(s) : s[i] = c /\ \A j \in 1..(i - 1) : s[j] # c
              ELSE 0

\* str.split(':', 1): one part when there is no colon, else the two parts
Split1(s) ==
    LET i == Find(s, ":")
    IN IF i = 0 THEN <<s>> ELSE <<SubSeq(s, 1, i - 1), From(s, i + 1)>>

\* whether p occurs in s (re.search of a literal pattern)
Contains(s, p) == \E i \in 1..(Len(s) - Len(p) + 1) : SubSeq(s, i, i + Len(p) - 1) = p

RECURSIVE Join(_, _)
Join(vs, sep) ==
    IF vs = <<>> THEN <<>>
    ELSE IF Len(vs) = 1 THEN vs[1]
    ELSE vs[1] \o sep \o Join(Tail(vs), sep)

RECURSIVE SetToSeq(_)
\* the order in which a dictionary or set is iterated: some fixed order
SetToSeq(S) ==
    IF S = {} THEN <<>>
    ELSE LET x == CHOOSE y \in S : TRUE IN <<x>> \o SetToSeq(S \ {x})

EmptyMap == [x \in {} |-> <<>>]

----------------------------------------------------------------------------
(* Tag names *)

date == <<"d", "a", "t", "e">>
originaldate == <<"o", "r", "i", "g", "i", "n", "a", "l", "d", "a", "t", "e">>
performer == <<"p", "e", "r", "f", "o", "r", "m", "e", "r">>
comment == <<"c", "o", "m", "m", "e", "n", "t">>
rating == <<"r", "a", "t", "i", "n", "g">>
private_rating == <<"~", "r", "a", "t", "i", "n", "g">>
private_format == <<"~", "f", "o", "r", "m", "a", "t">>
fingerprint == <<"f", "i", "n", "g", "e", "r", "p", "r", "i", "n", "t">>
musicip_fingerprint == <<"m", "u", "s", "i", "c", "i", "p", "_", "f", "i", "n", "g", "e", "r", "p", "r", "i", "n", "t">>
MusicMagic == <<"M", "u", "s", "i", "c", "M", "a", "g", "i", "c", " ", "F", "i", "n", "g", "e", "r", "p", "r", "i", "n", "t">>
tracktotal == <<"t", "r", "a", "c", "k", "t", "o", "t", "a", "l">>
totaltracks == <<"t", "o", "t", "a", "l", "t", "r", "a", "c", "k", "s">>
disctotal == <<"d", "i", "s", "c", "t", "o", "t", "a", "l">>
totaldiscs == <<"t", "o", "t", "a", "l", "d", "i", "s", "c", "s">>
metadata_block_picture == <<"m", "e", "t", "a", "d", "a", "t", "a", "_", "b", "l", "o", "c", "k", "_", "p", "i", "c", "t", "u", "r", "e">>
coverart == <<"c", "o", "v", "e", "r", "a", "r", "t">>
lyrics == <<"l", "y", "r", "i", "c", "s">>
title == <<"t", "i", "t", "l", "e">>
musicbrainz_trackid == <<"m", "u", "s", "i", "c", "b", "r", "a", "i", "n", "z", "_", "t", "r", "a", "c", "k", "i", "d">>
musicbrainz_recordingid == <<"m", "u", "s", "i", "c", "b", "r", "a", "i", "n", "z", "_", "r", "e", "c", "o", "r", "d", "i", "n", "g", "i", "d">>
musicbrainz_releasetrackid == <<"m", "u", "s", "i", "c", "b", "r", "a", "i", "n", "z", "_", "r", "e", "l", "e", "a", "s", "e", "t", "r", "a", "c", "k", "i", "d">>

Colon == <<":">>

\* VCommentFile.__translate and its inverse __rtranslate
translate == musicbrainz_trackid :> musicbrainz_recordingid
             @@ musicbrainz_releasetrackid :> musicbrainz_trackid
rtranslate == musicbrainz_recordingid :> musicbrainz_trackid
              @@ musicbrainz_trackid :> musicbrainz_releasetrackid

----------------------------------------------------------------------------
(* Numbers: float(), unicode(float), round() and int() on decimal digits.   *)
(* A number is [ip, fp]: the digits before and after the decimal point.     *)
(* The binary rounding error of a double (below 1e-15 relative) is left     *)
(* out: it changes neither the 12 digits unicode() keeps nor round() except *)
(* at an exact tie.                                                         *)

DigitChars == <<"0", "1", "2", "3", "4", "5", "6", "7", "8", "9">>

\* the significant digits unicode(float) keeps (Python 2: '%.12g')
SigDigits == 12

IsDigits(s) == \A i \in 1..Len(s) : IsIn(s[i], DigitChars)
DigitVals(s) == [i \in 1..Len(s) |-> IndexIn(s[i], DigitChars) - 1]
DigitStr(ds) == [i \in 1..Len(ds) |-> DigitChars[ds[i] + 1]]
Reverse(s) == [i \in 1..Len(s) |-> s[Len(s) + 1 - i]]
Zeros(n) == [i \in 1..n |-> 0]

RECURSIVE NatDigits(_)
\* the decimal digits of a natural number, most significant first
NatDigits(n) == IF n < 10 THEN <<n>> ELSE Append(NatDigits(n \div 10), n % 10)

RECURSIVE StripLeadingZeros(_)
StripLeadingZeros(ds) ==
    IF Len(ds) > 1 /\ ds[1] = 0 THEN StripLeadingZeros(Tail(ds)) ELSE ds

RECURSIVE StripTrailingZeros(_)
StripTrailingZeros(ds) ==
    IF ds # <<>> /\ ds[Len(ds)] = 0 THEN StripTrailingZeros(SubSeq(ds, 1, Len(ds) - 1)) ELSE ds

\* float(s) succeeds: digits, optionally a point and more digits (signs,
\* exponents, inf and nan are not among the values of the model)
FloatOk(s) ==
    LET i == Find(s, ".")
        ip == IF i = 0 THEN s ELSE SubSeq(s, 1, i - 1)
        fp == IF i = 0 THEN <<>> ELSE From(s, i + 1)
    IN IsDigits(ip) /\ IsDigits(fp) /\ Len(ip) + Len(fp) >= 1

\* float(s)
ParseFloat(s) ==
    LET i == Find(s, ".")
        ip == IF i = 0 THEN s ELSE SubSeq(s, 1, i - 1)
        fp == IF i = 0 THEN <<>> ELSE From(s, i + 1)
    IN [ip |-> IF ip = <<>> THEN <<0>> ELSE DigitVals(ip), fp |-> DigitVals(fp)]

RECURSIVE LongDiv(_, _, _)
\* schoolbook division of a digit string by n, rem carried in from the left
LongDiv(ds, n, rem) ==
    IF ds = <<>> THEN <<>>
    ELSE LET cur == rem * 10 + Head(ds)
         IN <<cur \div n>> \o LongDiv(Tail(ds), n, cur % n)

\* x / n, with enough digits after the point for SigDigits significant ones
\* and the digit that rounds them
DivFloat(x, n) ==
    LET fplen == Len(x.fp) + Len(NatDigits(n)) + SigDigits + 1
        q == LongDiv(x.ip \o x.fp \o Zeros(fplen - Len(x.fp)), n, 0)
    IN [ip |-> SubSeq(q, 1, Len(x.ip)), fp |-> From(q, Len(x.ip) + 1)]

RECURSIVE CarryRev(_)
CarryRev(c) == IF c = 0 THEN <<>> ELSE <<c % 10>> \o CarryRev(c \div 10)

RECURSIVE MulRev(_, _, _)
\* schoolbook multiplication by n, least significant digit first
MulRev(ds, n, carry) ==
    IF ds = <<>> THEN CarryRev(carry)
    ELSE LET cur == Head(ds) * n + carry
         IN <<cur % 10>> \o MulRev(Tail(ds), n, cur \div 10)

\* x * n
MulFloat(x, n) ==
    LET p == Reverse(MulRev(Reverse(x.ip \o x.fp), n, 0))
        iplen == Len(p) - Len(x.fp)
    IN [ip |-> IF iplen = 0 THEN <<0>> ELSE SubSeq(p, 1, iplen), fp |-> From(p, iplen + 1)]

RECURSIVE IncRev(_)
\* add one to a digit string, least significant digit first
IncRev(ds) ==
    IF ds = <<>> THEN <<1>>
    ELSE IF Head(ds) < 9 THEN <<Head(ds) + 1>> \o Tail(ds)
    ELSE <<0>> \o IncRev(Tail(ds))

Inc(ds) == Reverse(IncRev(Reverse(ds)))

\* round(x): to the nearest integer, a half away from zero
Round(x) ==
    IF x.fp # <<>> /\ x.fp[1] >= 5 THEN Inc(x.ip) ELSE x.ip

\* unicode(int(round(x)))
IntStr(x) == DigitStr(StripLeadingZeros(Round(x)))

\* unicode(x) of a float: SigDigits significant digits, trailing zeros
\* dropped, ".0" kept for a whole number
FloatStr(x) ==
    LET ip == StripLeadingZeros(x.ip)
        all == ip \o x.fp
        nz == {i \in 1..Len(all) : all[i] # 0}
        first == IF nz = {} THEN Len(ip) ELSE CHOOSE i \in nz : \A j \in nz : i <= j
        keep == IF first + SigDigits - 1 < Len(ip) THEN Len(ip) ELSE first + SigDigits - 1
        kept == SubSeq(all, 1, IF keep < Len(all) THEN keep ELSE Len(all))
        up == keep < Len(all) /\ all[keep + 1] >= 5
        r == IF up THEN Inc(kept) ELSE kept
        iplen == Len(ip) + (Len(r) - Len(kept))
        fp == StripTrailingZeros(From(r, iplen + 1))
    IN DigitStr(SubSeq(r, 1, iplen)) \o <<".">> \o DigitStr(IF fp = <<>> THEN <<0>> ELSE fp)

----------------------------------------------------------------------------
(* Pictures.  Binary data is a sequence of tokens: a serialized picture    *)
(* block is the token "PIC", its type code, MIME type and description, and *)
(* then its image data; image data an image reader accepts is a non-empty  *)
(* run of "i".  The base64 text of some bytes is "#" followed by the       *)
(* bytes, so that text not starting with "#" is not valid base64.          *)

\* the NAME of the container classes
FLAC == <<"F", "L", "A", "C">>
OggVorbis == <<"O", "g", "g", " ", "V", "o", "r", "b", "i", "s">>

\* base64.standard_b64encode
B64Encode(bytes) == <<"#">> \o bytes
\* base64.standard_b64decode succeeds (it raises TypeError otherwise)
B64Ok(text) == text = <<>> \/ text[1] = "#"
B64Decode(text) == IF text = <<>> THEN <<>> ELSE Tail(text)

\* mutagen.flac.Picture.write()
PictureWrite(p) == <<"PIC", p.type, p.mime, p.desc>> \o p.data
\* mutagen.flac.Picture(bytes) succeeds
PictureOk(bytes) == Len(bytes) >= 4 /\ bytes[1] = "PIC"
PictureRead(bytes) ==
    [type |-> bytes[2], mime |-> bytes[3], desc |-> bytes[4], data |-> From(bytes, 5)]

\* TagCoverArtImage(data=...) succeeds (it raises CoverArtImageError otherwise)
ImageOk(data) == data # <<>> /\ \A i \in 1..Len(data) : data[i] = "i"

\* picard.formats.id3: the picture type code of an image type, and back
types_from_id3(code) == IF code = "3" THEN "front" ELSE "other"
image_type_as_id3_num(maintype) == IF maintype = "front" THEN "3" ELSE "0"

TagCoverArtImage(tag, maintype, desc, data) ==
    [tag |-> tag, maintype |-> maintype, comment |-> desc, data |-> data,
     mimetype |-> "image/jpeg"]

----------------------------------------------------------------------------
(* VCommentFile._load *)

\* Metadata.add: append the value to the field's list
MetadataAdd(fields, name, value) ==
    IF name \in DOMAIN fields THEN [fields EXCEPT ![name] = Append(@, value)]
    ELSE fields @@ (name :> <<value>>)

\* picard.util.sanitize_date: drop the zero month and day
RECURSIVE sanitize_date(_)
sanitize_date(value) ==
    IF EndsWith(value, <<"-", "0", "0">>) THEN sanitize_date(SubSeq(value, 1, Len(value) - 3))
    ELSE value

RECURSIVE ScanBack(_, _, _)
\* the while loop of _load: walk left from value[start] until the bracket
\* that closes the text is matched or position 0 is reached; positions are
\* the code's, counted from 0
ScanBack(value, start, count) ==
    IF count > 0 /\ start > 0
    THEN ScanBack(value, start - 1,
                  IF value[start + 1] = ")" THEN count + 1
                  ELSE IF value[start + 1] = "(" THEN count - 1
                  ELSE count)
    ELSE start

\* SplitRole keeping the character before the bracket: value[:start + 1]
SplitRoleKeepsGap(name, value) ==
    IF EndsWith(value, <<")">>)
    THEN LET start == ScanBack(value, Len(value) - 2, 1)
         IN IF start > 0
            THEN [name |-> name \o Colon \o SubSeq(value, start + 3, Len(value) - 1),
                  value |-> SubSeq(value, 1, start + 1)]
            ELSE [name |-> name \o Colon, value |-> value]
    ELSE [name |-> name \o Colon, value |-> value]

\* SplitRole splitting also when nothing is left of the value: start >= 0
SplitRoleNoRoom(name, value) ==
    IF EndsWith(value, <<")">>)
    THEN LET start == ScanBack(value, Len(value) - 2, 1)
         IN IF start >= 0
            THEN [name |-> name \o Colon \o SubSeq(value, start + 3, Len(value) - 1),
                  value |-> SubSeq(value, 1, start)]
            ELSE [name |-> name \o Colon, value |-> value]
    ELSE [name |-> name \o Colon, value |-> value]

\* the performer/comment branch of _load: "Joe Barr (Piano)" under performer
\* becomes "Joe Barr" under performer:Piano
SplitRole(name, value) ==
    IF EndsWith(value, <<")">>)
    THEN LET start == ScanBack(value, Len(value) - 2, 1)
         IN IF start > 0
            THEN [name |-> name \o Colon \o SubSeq(value, start + 3, Len(value) - 1),
                  value |-> SubSeq(value, 1, start)]
            ELSE [name |-> name \o Colon, value |-> value]
    ELSE [name |-> name \o Colon, value |-> value]

\* the email a raw rating name carries: name.split(':', 1), '' without a colon
RatingEmail(name) ==
    LET parts == Split1(name) IN IF Len(parts) = 2 THEN parts[2] ELSE <<>>

\* the rating branch of _load: the entry of another user is skipped
RatingIn(name, value, c) ==
    IF RatingEmail(name) # c.email THEN [k |-> "skip"]
    ELSE IF ~FloatOk(value) THEN [k |-> "raise"]
    ELSE [k |-> "add", name |-> private_rating,
          value |-> IntStr(MulFloat(ParseFloat(value), c.steps - 1))]

\* the metadata_block_picture branch of _load: the decoding is outside the try
PictureIn(name, value) ==
    IF ~B64Ok(value) \/ ~PictureOk(B64Decode(value)) THEN [k |-> "raise"]
    ELSE LET image == PictureRead(B64Decode(value))
         IN IF ~ImageOk(image.data) THEN [k |-> "skip"]
            ELSE [k |-> "image",
                  image |-> TagCoverArtImage("metadata_block_picture",
                                             types_from_id3(image.type), image.desc, image.data)]

\* TotalIn without the continue: the value is loaded in every case
TotalInNoSkip(target, value, tags) ==
    [k |-> "add", name |-> target, value |-> value]

\* the tracktotal and disctotal branches of _load: the value is skipped when
\* the container has an entry of the target name, and loaded under it otherwise
TotalIn(target, value, tags) ==
    IF target \in DOMAIN tags THEN [k |-> "skip"]
    ELSE [k |-> "add", name |-> target, value |-> value]

\* the body of the loop over the raw values of _load
NormalizeIn(name, value, tags, c) ==
    IF name = date \/ name = originaldate
    THEN [k |-> "add", name |-> name, value |-> sanitize_date(value)]
    ELSE IF name = performer \/ name = comment
    THEN [k |-> "add"] @@ SplitRole(name, value)
    ELSE IF StartsWith(name, rating)
    THEN RatingIn(name, value, c)
    ELSE IF name = fingerprint /\ StartsWith(value, MusicMagic)
    THEN [k |-> "add", name |-> musicip_fingerprint, value |-> From(value, Len(MusicMagic) + 1)]
    ELSE IF name = tracktotal
    THEN TotalIn(totaltracks, value, tags)
    ELSE IF name = disctotal
    THEN TotalIn(totaldiscs, value, tags)
    ELSE IF name = metadata_block_picture
    THEN PictureIn(name, value)
    ELSE IF name \in DOMAIN translate
    THEN [k |-> "add", name |-> translate[name], value |-> value]
    ELSE [k |-> "add", name |-> name, value |-> value]

\* one value of one raw entry, applied to the record being built
LoadValue(acc, name, value, tags, c) ==
    LET r == NormalizeIn(name, value, tags, c)
    IN IF acc.status = "raised" \/ r.k = "skip" THEN acc
       ELSE IF r.k = "raise" THEN [acc EXCEPT !.status = "raised"]
       ELSE IF r.k = "image" THEN [acc EXCEPT !.images = Append(@, r.image)]
       ELSE [acc EXCEPT !.fields = MetadataAdd(@, r.name, r.value)]

RECURSIVE LoadValues(_, _, _, _, _)
LoadValues(acc, name, values, tags, c) ==
    IF values = <<>> THEN acc
    ELSE LoadValues(LoadValue(acc, name, Head(values), tags, c), name, Tail(values), tags, c)

RECURSIVE LoadTags(_, _, _, _)
\* for origname, values in file.tags.items()
LoadTags(acc, names, tags, c) ==
    IF names = <<>> THEN acc
    ELSE LoadTags(LoadValues(acc, Head(names), tags[Head(names)], tags, c), Tail(names), tags, c)

RECURSIVE LoadPictures(_, _)
\* for image in file.pictures (FLAC only)
LoadPictures(acc, pictures) ==
    IF pictures = <<>> THEN acc
    ELSE LET p == Head(pictures)
             next == IF ImageOk(p.data)
                     THEN [acc EXCEPT !.images = Append(@, TagCoverArtImage("FLAC/PICTURE",
                                                    types_from_id3(p.type), p.desc, p.data))]
                     ELSE acc
         IN LoadPictures(next, Tail(pictures))

RECURSIVE LoadCoverArt(_, _)
\* for data in file["COVERART"]: the base64 decoding is inside a try that
\* catches CoverArtImageError only
LoadCoverArt(acc, values) ==
    IF values = <<>> \/ acc.status = "raised" THEN acc
    ELSE LET v == Head(values)
             next == IF ~B64Ok(v) THEN [acc EXCEPT !.status = "raised"]
                     ELSE IF ImageOk(B64Decode(v))
                     THEN [acc EXCEPT !.images = Append(@, TagCoverArtImage("COVERART",
                                                    "front", "", B64Decode(v)))]
                     ELSE acc
         IN LoadCoverArt(next, Tail(values))

\* the record a failed _load leaves: none
Raised == [status |-> "raised", fields |-> EmptyMap, images |-> <<>>]

\* VCommentFile._load and the subclass's _info
LoadOp(f, c) ==
    LET a0 == [status |-> "ok", fields |-> EmptyMap, images |-> <<>>]
        a1 == LoadTags(a0, SetToSeq(DOMAIN f.tags), f.tags, c)
        a2 == IF f.format = FLAC /\ a1.status = "ok" THEN LoadPictures(a1, f.pictures) ELSE a1
        a3 == IF metadata_block_picture \notin DOMAIN f.tags /\ coverart \in DOMAIN f.tags
              THEN LoadCoverArt(a2, f.tags[coverart])
              ELSE a2
    IN IF a3.status = "raised" THEN Raised
       ELSE [a3 EXCEPT !.fields = [n \in (DOMAIN @) \cup {private_format} |->
                                      IF n = private_format THEN <<f.format>> ELSE @[n]]]

----------------------------------------------------------------------------
(* VCommentFile._save *)

\* the body of the loop over metadata.items() of _save
NormalizeOut(name, value, c) ==
    IF name = private_rating
    THEN IF ~FloatOk(value) \/ c.steps = 1 THEN [k |-> "raise"]
         ELSE [k |-> "put",
               name |-> IF c.email # <<>> THEN rating \o Colon \o c.email ELSE rating,
               value |-> FloatStr(DivFloat(ParseFloat(value), c.steps - 1))]
    ELSE IF StartsWith(name, <<"~">>)
    THEN [k |-> "drop"]
    ELSE IF StartsWith(name, lyrics \o Colon)
    THEN [k |-> "put", name |-> lyrics, value |-> value]
    ELSE IF name = date \/ name = originaldate
    THEN [k |-> "put", name |-> name, value |-> sanitize_date(value)]
    ELSE IF StartsWith(name, performer \o Colon) \/ StartsWith(name, comment \o Colon)
    THEN LET desc == Split1(name)[2]
         IN [k |-> "put", name |-> Split1(name)[1],
             value |-> IF desc # <<>> THEN value \o <<" ", "(">> \o desc \o <<")">> ELSE value]
    ELSE IF name = musicip_fingerprint
    THEN [k |-> "put", name |-> fingerprint, value |-> MusicMagic \o value]
    ELSE IF name \in DOMAIN rtranslate
    THEN [k |-> "put", name |-> rtranslate[name], value |-> value]
    ELSE [k |-> "put", name |-> name, value |-> value]

\* tags.setdefault(name, []).append(value)
SetDefaultAppend(tags, name, value) ==
    IF name \in DOMAIN tags THEN [tags EXCEPT ![name] = Append(@, value)]
    ELSE tags @@ (name :> <<value>>)

\* one value of one field, written to the raw dictionary being built
SaveValue(acc, name, value, c) ==
    LET r == NormalizeOut(name, value, c)
    IN IF acc.status = "raised" \/ r.k = "drop" THEN acc
       ELSE IF r.k = "raise" THEN [acc EXCEPT !.status = "raised"]
       ELSE [acc EXCEPT !.tags = SetDefaultAppend(@, Upper(r.name), r.value)]

RECURSIVE SaveValues(_, _, _, _)
SaveValues(acc, name, values, c) ==
    IF values = <<>> THEN acc
    ELSE SaveValues(SaveValue(acc, name, Head(values), c), name, Tail(values), c)

RECURSIVE SaveFields(_, _, _, _)
\* for name, value in metadata.items()
SaveFields(acc, names, fields, c) ==
    IF names = <<>> THEN acc
    ELSE SaveFields(SaveValues(acc, Head(names), fields[Head(names)], c), Tail(names), fields, c)

\* metadata[name]: the values of the field joined by "; "
MetadataGet(fields, name) == Join(fields[name], <<";", " ">>)

\* the TRACKTOTAL and DISCTOTAL entries _save adds after the fields
SaveTotals(tags, fields) ==
    LET t1 == IF totaltracks \in DOMAIN fields
              THEN SetDefaultAppend(tags, Upper(tracktotal), MetadataGet(fields, totaltracks))
              ELSE tags
    IN IF totaldiscs \in DOMAIN fields
       THEN SetDefaultAppend(t1, Upper(disctotal), MetadataGet(fields, totaldiscs))
       ELSE t1

\* the mutagen.flac.Picture _save builds of an image
PictureOf(image) ==
    [type |-> image_type_as_id3_num(image.maintype), mime |-> image.mimetype,
     desc |-> image.comment, data |-> image.data]

RECURSIVE SaveImages(_, _, _)
\* for image in metadata.images_to_be_saved_to_tags: a native picture in a
\* FLAC container, a METADATA_BLOCK_PICTURE value in any other
SaveImages(acc, images, isFlac) ==
    IF images = <<>> THEN acc
    ELSE LET picture == PictureOf(Head(images))
             next == IF isFlac THEN [acc EXCEPT !.pictures = Append(@, picture)]
                     ELSE [acc EXCEPT !.tags = SetDefaultAppend(@, Upper(metadata_block_picture),
                                                   B64Encode(PictureWrite(picture)))]
         IN SaveImages(next, Tail(images), isFlac)

\* file.tags.update(tags): each written name replaces the entry of that name
TagsUpdate(old, new) ==
    LET keys == {Lower(K) : K \in DOMAIN new}
    IN [n \in (DOMAIN old) \cup keys |->
           IF n \in keys THEN new[CHOOSE K \in DOMAIN new : Lower(K) = n] ELSE old[n]]

\* VCommentFile._get_tag_name; None is the empty name
GetTagName(name, c) ==
    IF name = private_rating
    THEN IF c.email # <<>> THEN rating \o Colon \o c.email ELSE rating
    ELSE IF StartsWith(name, <<"~">>) THEN <<>>
    ELSE IF StartsWith(name, lyrics \o Colon) THEN lyrics
    ELSE IF StartsWith(name, performer \o Colon) \/ StartsWith(name, comment \o Colon)
    THEN Split1(name)[1]
    ELSE IF name = musicip_fingerprint THEN fingerprint
    ELSE IF name \in DOMAIN rtranslate THEN rtranslate[name]
    ELSE name

\* list.remove(item): drop the first element equal to item
ListRemove(list, item) ==
    LET i == CHOOSE j \in 1..Len(list) : list[j] = item /\ \A h \in 1..(j - 1) : list[h] # item
    IN SubSeq(list, 1, i - 1) \o From(list, i + 1)

RECURSIVE RemoveMatching(_, _, _)
\* for item in list: if re.search(pattern, item): list.remove(item)
\* the loop reads position i of the list as it is by then (i counted from 0)
RemoveMatching(list, i, pattern) ==
    IF i >= Len(list) THEN list
    ELSE IF Contains(list[i + 1], pattern)
    THEN RemoveMatching(ListRemove(list, list[i + 1]), i + 1, pattern)
    ELSE RemoveMatching(list, i + 1, pattern)

\* the body of the loop over metadata.deleted_tags of _save
DeleteTag(tags, tag, c) ==
    LET real_name == GetTagName(tag, c)
        key == Lower(real_name)
    IN IF real_name = <<>> \/ key \notin DOMAIN tags THEN tags
       ELSE IF real_name = performer \/ real_name = comment
       THEN [tags EXCEPT ![key] =
                RemoveMatching(@, 0, <<"(">> \o Split1(tag)[2] \o <<")">>)]
       ELSE [n \in (DOMAIN tags) \ {key} |-> tags[n]]

RECURSIVE DeleteTags(_, _, _)
DeleteTags(tags, deleted, c) ==
    IF deleted = <<>> THEN tags
    ELSE DeleteTags(DeleteTag(tags, Head(deleted), c), Tail(deleted), c)

\* ClearPictures without the pending images in its condition
ClearPicturesOnClearOnly(f, m, c) ==
    IF f.format = FLAC /\ c.clear THEN <<>> ELSE f.pictures

\* the native pictures _save starts from: file.clear_pictures() in a FLAC
\* container when clear_existing_tags is set or an image is pending
ClearPictures(f, m, c) ==
    IF f.format = FLAC /\ (c.clear \/ m.images # <<>>) THEN <<>> ELSE f.pictures

\* VCommentFile._save: the container as file.save() writes it; a _save that
\* raises writes nothing
SaveOp(f, m, c) ==
    LET isFlac == f.format = FLAC
        tags0 == IF c.clear THEN EmptyMap ELSE f.tags
        pics0 == ClearPictures(f, m, c)
        a1 == SaveFields([status |-> "ok", tags |-> EmptyMap, pictures |-> pics0],
                         SetToSeq(DOMAIN m.fields), m.fields, c)
        a2 == [a1 EXCEPT !.tags = SaveTotals(@, m.fields)]
        a3 == SaveImages(a2, m.images, isFlac)
        tags1 == TagsUpdate(tags0, a3.tags)
        tags2 == DeleteTags(tags1, SetToSeq(m.deleted), c)
    IN IF a1.status = "raised" THEN f
       ELSE [tags |-> tags2, pictures |-> a3.pictures, format |-> f.format]

----------------------------------------------------------------------------
(* _select_ogg_type *)

\* the code point order of the letters, 0 for any other character
Ord(ch) ==
    IF IsIn(ch, UpperLetters) THEN 64 + IndexIn(ch, UpperLetters)
    ELSE IF IsIn(ch, LowerLetters) THEN 96 + IndexIn(ch, LowerLetters)
    ELSE 0

RECURSIVE StrLess(_, _)
\* a < b on strings
StrLess(a, b) ==
    IF b = <<>> THEN FALSE
    ELSE IF a = <<>> THEN TRUE
    ELSE IF Ord(Head(a)) # Ord(Head(b)) THEN Ord(Head(a)) < Ord(Head(b))
    ELSE StrLess(Tail(a), Tail(b))

\* ResultLE on the score alone: the names do not break a tie
ResultLEByScore(x, y) == x.score <= y.score

\* x <= y on the tuples (score, option.__name__, option) that are sorted
ResultLE(x, y) ==
    x.score < y.score \/ (x.score = y.score /\ (x.name = y.name \/ StrLess(x.name, y.name)))

RECURSIVE Insert(_, _)
\* x put into a sorted list, after the elements that are not greater
Insert(sorted, x) ==
    IF sorted = <<>> THEN <<x>>
    ELSE IF ResultLE(Head(sorted), x) THEN <<Head(sorted)>> \o Insert(Tail(sorted), x)
    ELSE <<x>> \o sorted

RECURSIVE Sort(_)
\* results.sort()
Sort(results) ==
    IF results = <<>> THEN <<>>
    ELSE Insert(Sort(SubSeq(results, 1, Len(results) - 1)), results[Len(results)])

\* _select_ogg_type: the class instantiated, or mutagen.ogg.error
SelectOggType(opts) ==
    LET results == Sort(opts)
    IN IF results = <<>> \/ results[Len(results)].score <= 0
       THEN [status |-> "error", name |-> <<>>]
       ELSE [status |-> "ok", name |-> results[Len(results)].name]

OggFLACFile == <<"O", "g", "g", "F", "L", "A", "C", "F", "i", "l", "e">>
OggSpeexFile == <<"O", "g", "g", "S", "p", "e", "e", "x", "F", "i", "l", "e">>
OggVorbisFile == <<"O", "g", "g", "V", "o", "r", "b", "i", "s", "F", "i", "l", "e">>
OggTheoraFile == <<"O", "g", "g", "T", "h", "e", "o", "r", "a", "F", "i", "l", "e">>

\* the candidate list of OggAudioFile
OggAudioOptions == <<OggFLACFile, OggSpeexFile, OggVorbisFile>>

----------------------------------------------------------------------------
(* The state machine *)

NoFile == [tags |-> EmptyMap, pictures |-> <<>>, format |-> OggVorbis]
NoConfig == [email |-> <<>>, steps |-> 2, clear |-> FALSE]
NoMetadata == [fields |-> EmptyMap, images |-> <<>>, deleted |-> {}]
NoOutput == [status |-> "none", fields |-> EmptyMap, images |-> <<>>]
NoSelection == [status |-> "none", name |-> <<>>]

\* File.save: _save writes md to the container
Save ==
    /\ Len(hist) < MaxOps
    /\ prev' = file
    /\ file' = SaveOp(file, md, cfg)
    /\ hist' = Append(hist, "save")
    /\ UNCHANGED <<cfg, md, out, prevOut, options, selected>>

\* File.load: _load reads the container
Load ==
    /\ Len(hist) < MaxOps
    /\ prevOut' = out
    /\ out' = LoadOp(file, cfg)
    /\ hist' = Append(hist, "load")
    /\ UNCHANGED <<file, cfg, md, prev, options, selected>>

\* the caller deletes a field of the record: it leaves the fields and joins
\* metadata.deleted_tags
Delete ==
    /\ Len(hist) < MaxOps
    /\ \E n \in DOMAIN md.fields :
          md' = [md EXCEPT !.fields = [m \in (DOMAIN @) \ {n} |-> @[m]],
                           !.deleted = @ \cup {n}]
    /\ hist' = Append(hist, "delete")
    /\ UNCHANGED <<file, cfg, out, prevOut, prev, options, selected>>

\* the caller makes every loaded image a pending image of the record
Adopt ==
    /\ Len(hist) < MaxOps
    /\ out.status = "ok"
    /\ md' = [md EXCEPT !.images = out.images]
    /\ hist' = Append(hist, "adopt")
    /\ UNCHANGED <<file, cfg, out, prevOut, prev, options, selected>>

\* OggAudioFile / OggVideoFile: the detector runs on the candidate list
Detect ==
    /\ selected.status = "none"
    /\ selected' = SelectOggType(options)
    /\ UNCHANGED <<file, cfg, md, out, prevOut, prev, hist, options>>

\* the history read
Last == IF hist = <<>> THEN "none" ELSE hist[Len(hist)]
Saved == \E i \in 1..Len(hist) : hist[i] = "save"
\* the last operation is a load and the last operation before it that
\* touched the container is a save
LoadedAfterSave == Last = "load" /\ Saved

SeqsUpTo(S, lo, hi) == UNION {[1..n -> S] : n \in lo..hi}

----------------------------------------------------------------------------
(* Performer and comment fields with a role, and without *)

RoleChars == {"a", "(", ")"}

\* a record with one performer:R or comment:R field of one value V
InitRoles ==
    /\ \E base \in {performer, comment} :
       \E V \in SeqsUpTo(RoleChars, 1, MaxBare), R \in SeqsUpTo(RoleChars, 0, MaxRole) :
          /\ (R = <<>> \/ Len(V) <= MaxVal)
          /\ md = [fields |-> (base \o Colon \o R) :> <<V>>, images |-> <<>>, deleted |-> {}]
    /\ file = NoFile
    /\ cfg = NoConfig
    /\ out = NoOutput
    /\ prevOut = NoOutput
    /\ prev = NoFile
    /\ hist = <<>>
    /\ options = <<>>
    /\ selected = NoSelection

NextRoles == Save \/ Load

SpecRoles == InitRoles /\ [][NextRoles]_vars

RECURSIVE DepthOk(_, _)
DepthOk(s, d) ==
    IF s = <<>> THEN d = 0
    ELSE IF Head(s) = "(" THEN DepthOk(Tail(s), d + 1)
    ELSE IF Head(s) = ")" THEN d > 0 /\ DepthOk(Tail(s), d - 1)
    ELSE DepthOk(Tail(s), d)

\* every bracket of s is matched, in order
Balanced(s) == DepthOk(s, 0)

\* the one field of the record, its base name, role and value
TheField == CHOOSE n \in DOMAIN md.fields : TRUE
FieldBase == Split1(TheField)[1]
FieldRole == Split1(TheField)[2]
FieldValue == md.fields[TheField][1]

\* the positions j >= 3 of V at which a bracketed group with balanced
\* content starts that runs to the end of V
GroupStarts(V) ==
    {j \in 3..(Len(V) - 1) :
        V[Len(V)] = ")" /\ V[j] = "(" /\ Balanced(SubSeq(V, j + 1, Len(V) - 1))}

\* C1: a performer:R or comment:R field with value V, R not empty and with
\* balanced brackets, is saved as the one raw value "V (R)" under the base
\* name, and loading that container gives back exactly the field
\* performer:R (comment:R) with the one value V.
C1_RoleRoundTrip ==
    (DOMAIN md.fields # {} /\ FieldRole # <<>> /\ Balanced(FieldRole)) =>
        /\ Saved => file.tags = (FieldBase :> <<FieldValue \o <<" ", "(">> \o FieldRole \o <<")">>>>)
        /\ LoadedAfterSave =>
              /\ out.status = "ok"
              /\ DOMAIN out.fields = {TheField, private_format}
              /\ out.fields[TheField] = <<FieldValue>>

\* a role with brackets and a value with a bracket went through save and load
C1_Witness ==
    /\ LoadedAfterSave
    /\ FieldRole = <<"(", ")">>
    /\ IsIn(")", FieldValue)
    /\ TheField \in DOMAIN out.fields
    /\ out.fields[TheField] = <<FieldValue>>

----------------------------------------------------------------------------
(* Deleting a performer or comment field of one role *)

RoleP == <<"p">>
RoleG == <<"g">>

\* raw values: two of role p, one of role g, one without a role
RawValues ==
    {<<"x", " ", "(", "p", ")">>, <<"y", " ", "(", "p", ")">>,
     <<"x", " ", "(", "g", ")">>, <<"z">>}

\* a container with a raw performer or comment list, and a record that
\* writes nothing and deletes the field of one role
InitDelete ==
    /\ \E base \in {performer, comment}, role \in {RoleP, RoleG} :
       \E list \in SeqsUpTo(RawValues, 1, MaxList) :
          /\ file = [tags |-> base :> list, pictures |-> <<>>, format |-> OggVorbis]
          /\ md = [fields |-> EmptyMap, images |-> <<>>, deleted |-> {base \o Colon \o role}]
    /\ cfg = NoConfig
    /\ out = NoOutput
    /\ prevOut = NoOutput
    /\ prev = NoFile
    /\ hist = <<>>
    /\ options = <<>>
    /\ selected = NoSelection

NextDelete == Save \/ Load

SpecDelete == InitDelete /\ [][NextDelete]_vars

\* the field the record deletes, its base name and the literal "(R)"
TheDeleted == CHOOSE n \in md.deleted : TRUE
DeletedBase == Split1(TheDeleted)[1]
DeletedMark == <<"(">> \o Split1(TheDeleted)[2] \o <<")">>

KeepsMark(list, mark) == LET Keep(v) == ~Contains(v, mark) IN SelectSeq(list, Keep)

\* C2: after a save that deletes performer:R (comment:R) and writes no
\* performer (comment) value, the raw list is the list before the save
\* without the values containing "(R)", the others in their order.
C2_RoleDeletion ==
    (Last = "save" /\ md.deleted # {} /\ DeletedBase \in DOMAIN prev.tags) =>
        /\ DeletedBase \in DOMAIN file.tags
        /\ file.tags[DeletedBase] = KeepsMark(prev.tags[DeletedBase], DeletedMark)

----------------------------------------------------------------------------
(* Totals *)

One == <<"1">>
Two == <<"2">>
Three == <<"3">>
Four == <<"4">>

\* the raw entries of the two names of a total a container may start with
TotalEntries(total, alias) ==
    {EmptyMap, total :> <<One>>, alias :> <<Two>>, total :> <<One>> @@ alias :> <<Two>>}

\* a container with any of the four raw totals and a record with any of
\* the two total fields
InitTotals ==
    /\ \E t \in TotalEntries(totaltracks, tracktotal), d \in TotalEntries(totaldiscs, disctotal) :
          file = [tags |-> t @@ d, pictures |-> <<>>, format |-> OggVorbis]
    /\ \E t \in {EmptyMap, totaltracks :> <<Three>>}, d \in {EmptyMap, totaldiscs :> <<Four>>} :
          md = [fields |-> t @@ d, images |-> <<>>, deleted |-> {}]
    /\ \E clear \in BOOLEAN : cfg = [NoConfig EXCEPT !.clear = clear]
    /\ out = NoOutput
    /\ prevOut = NoOutput
    /\ prev = NoFile
    /\ hist = <<>>
    /\ options = <<>>
    /\ selected = NoSelection

NextTotals == Save \/ Load \/ Delete

SpecTotals == InitTotals /\ [][NextTotals]_vars

\* the last two operations are a save and then a load
SaveThenLoad == Len(hist) >= 2 /\ hist[Len(hist) - 1] = "save" /\ Last = "load"

\* what C5 says of one total and its alias
TotalRoundTrip(total, alias) ==
    /\ (Last = "save" /\ total \in DOMAIN md.fields) =>
          /\ total \in DOMAIN file.tags /\ file.tags[total] = md.fields[total]
          /\ alias \in DOMAIN file.tags /\ file.tags[alias] = md.fields[total]
    /\ (SaveThenLoad /\ total \in DOMAIN md.fields) =>
          /\ total \in DOMAIN out.fields /\ out.fields[total] = md.fields[total]
    /\ Last = "load" =>
          /\ out.status = "ok"
          /\ total \in DOMAIN file.tags =>
                total \in DOMAIN out.fields /\ out.fields[total] = file.tags[total]
          /\ (total \notin DOMAIN file.tags /\ alias \in DOMAIN file.tags) =>
                total \in DOMAIN out.fields /\ out.fields[total] = file.tags[alias]
          /\ (total \notin DOMAIN file.tags /\ alias \notin DOMAIN file.tags) =>
                total \notin DOMAIN out.fields

\* C5: a record's totaltracks (totaldiscs) value is written under both
\* TOTALTRACKS and TRACKTOTAL (TOTALDISCS and DISCTOTAL) and loaded back
\* once; a load skips every tracktotal (disctotal) value when the container
\* has a totaltracks (totaldiscs) entry and loads it as totaltracks
\* (totaldiscs) when it has none.
C5_TotalsRoundTrip ==
    TotalRoundTrip(totaltracks, tracktotal) /\ TotalRoundTrip(totaldiscs, disctotal)

\* a container that had other totals was saved with the record's total and
\* loaded, and the load gave the record's total
C5_Witness ==
    /\ hist = <<"save", "load">>
    /\ ~cfg.clear
    /\ totaltracks \in DOMAIN md.fields
    /\ tracktotal \in DOMAIN prev.tags /\ prev.tags[tracktotal] = <<Two>>
    /\ tracktotal \in DOMAIN file.tags /\ file.tags[tracktotal] = <<Three>>
    /\ totaltracks \in DOMAIN out.fields /\ out.fields[totaltracks] = <<Three>>

\* what C8 says of one total
StaysDeleted(total) ==
    (/\ hist = <<"save", "delete", "save", "load">>
     /\ ~cfg.clear
     /\ total \in md.deleted) => total \notin DOMAIN out.fields

\* C8: a container saved with totaltracks (totaldiscs), then saved again by
\* a record that deleted the field, with clear_existing_tags off, loads
\* without a totaltracks (totaldiscs) field.
C8_DeletedTotalStaysDeleted == StaysDeleted(totaltracks) /\ StaysDeleted(totaldiscs)

----------------------------------------------------------------------------
(* Ratings *)

\* rating_user_email: none, lower case, mixed case
Emails == {<<>>, <<"m", "e">>, <<"M", "e">>}

\* a record with the rating r of a scale of steps, and a container that is
\* empty or holds the rating of another user
InitRating ==
    /\ \E email \in Emails, steps \in 2..MaxSteps :
          /\ cfg = [email |-> email, steps |-> steps, clear |-> FALSE]
          /\ \E r \in 0..(steps - 1) :
                md = [fields |-> private_rating :> <<DigitStr(NatDigits(r))>>,
                      images |-> <<>>, deleted |-> {}]
    /\ \E tags \in {EmptyMap, (rating \o Colon \o <<"y", "o", "u">>) :> <<<<"1", ".", "0">>>>} :
          file = [tags |-> tags, pictures |-> <<>>, format |-> OggVorbis]
    /\ out = NoOutput
    /\ prevOut = NoOutput
    /\ prev = NoFile
    /\ hist = <<>>
    /\ options = <<>>
    /\ selected = NoSelection

NextRating == Save \/ Load

SpecRating == InitRating /\ [][NextRating]_vars

\* the raw name _save gives the rating
RatingName == IF cfg.email = <<>> THEN rating ELSE rating \o Colon \o cfg.email

\* C6: the rating r of a record is saved under rating:<email> (rating
\* without an email), whatever the letter case of the email, and loading
\* the container under the same configuration gives the rating r back.
C6_RatingRoundTrip ==
    /\ Saved => Lower(RatingName) \in DOMAIN file.tags
    /\ LoadedAfterSave =>
          /\ out.status = "ok"
          /\ private_rating \in DOMAIN out.fields
          /\ out.fields[private_rating] = md.fields[private_rating]

----------------------------------------------------------------------------
(* Pictures over saves and loads *)

\* image data: n + 1 times "i"
Data(n) == [i \in 1..(n + 1) |-> "i"]

\* the picture a container holds before the first save
OldPicture == [type |-> "3", mime |-> "image/jpeg", desc |-> "old", data |-> Data(0)]

\* the n-th pending image of a record
Pending(n) == TagCoverArtImage("", "front", "new", Data(n))

\* a FLAC or Ogg Vorbis container with old pictures in any of its three
\* sources, and a record with 0..MaxImgs pending images
InitPictures ==
    /\ \E format \in {FLAC, OggVorbis} :
       \E native \in SeqsUpTo({OldPicture}, 0, IF format = FLAC THEN MaxPics ELSE 0) :
       \E block \in {EmptyMap} \cup
                    {metadata_block_picture :> v :
                        v \in SeqsUpTo({B64Encode(PictureWrite(OldPicture))}, 1, MaxPics)} :
       \E legacy \in {EmptyMap} \cup
                     {coverart :> v : v \in SeqsUpTo({B64Encode(OldPicture.data)}, 1, MaxPics)} :
          file = [tags |-> block @@ legacy, pictures |-> native, format |-> format]
    /\ \E k \in 0..MaxImgs :
          md = [fields |-> EmptyMap, images |-> [i \in 1..k |-> Pending(i)], deleted |-> {}]
    /\ \E clear \in BOOLEAN : cfg = [NoConfig EXCEPT !.clear = clear]
    /\ out = NoOutput
    /\ prevOut = NoOutput
    /\ prev = NoFile
    /\ hist = <<>>
    /\ options = <<>>
    /\ selected = NoSelection

NextPictures == Save \/ Load \/ Adopt

SpecPictures == InitPictures /\ [][NextPictures]_vars

\* the image data of a list of images or pictures
DataOf(list) == [i \in 1..Len(list) |-> list[i].data]

\* the image data of the picture blocks of a list of base64 values
BlockDataOf(values) == [i \in 1..Len(values) |-> PictureRead(B64Decode(values[i])).data]

C10_ImageCountStable ==
    (/\ hist = <<"load", "adopt", "save", "load">>
     /\ ~cfg.clear
     /\ out.status = "ok" /\ prevOut.status = "ok") =>
        Len(out.images) = Len(prevOut.images)

----------------------------------------------------------------------------
(* Pictures that cannot be decoded *)

\* raw text that is no base64
NotBase64 == <<"!">>
\* base64 of bytes that are no picture block
NotPicture == B64Encode(<<"x">>)
\* base64 of a picture block whose data is no image
NotImage == B64Encode(PictureWrite([OldPicture EXCEPT !.data = <<"j">>]))

BlockValues == {B64Encode(PictureWrite(OldPicture)), NotBase64, NotPicture, NotImage}
LegacyValues == {B64Encode(OldPicture.data), NotBase64, B64Encode(<<"j">>)}
NativePictures == {OldPicture, [OldPicture EXCEPT !.data = <<"j">>]}

\* a container with a title and good and bad pictures in any of its sources
InitDecode ==
    /\ \E format \in {FLAC, OggVorbis} :
       \E native \in SeqsUpTo(NativePictures, 0, IF format = FLAC THEN MaxDecode ELSE 0) :
       \E block \in {EmptyMap} \cup
                    {metadata_block_picture :> v : v \in SeqsUpTo(BlockValues, 1, MaxDecode)} :
       \E legacy \in {EmptyMap} \cup
                     {coverart :> v : v \in SeqsUpTo(LegacyValues, 1, MaxDecode)} :
          file = [tags |-> title :> <<One>> @@ block @@ legacy,
                  pictures |-> native, format |-> format]
    /\ md = NoMetadata
    /\ cfg = NoConfig
    /\ out = NoOutput
    /\ prevOut = NoOutput
    /\ prev = NoFile
    /\ hist = <<>>
    /\ options = <<>>
    /\ selected = NoSelection

NextDecode == Load

SpecDecode == InitDecode /\ [][NextDecode]_vars

\* the data of the values of a METADATA_BLOCK_PICTURE entry that decode
GoodBlocks(values) ==
    LET Good(v) == B64Ok(v) /\ PictureOk(B64Decode(v)) /\ ImageOk(PictureRead(B64Decode(v)).data)
        good == SelectSeq(values, Good)
    IN [i \in 1..Len(good) |-> PictureRead(B64Decode(good[i])).data]

\* the data of the values of a COVERART entry that decode
GoodLegacy(values) ==
    LET Good(v) == B64Ok(v) /\ ImageOk(B64Decode(v))
        good == SelectSeq(values, Good)
    IN [i \in 1..Len(good) |-> B64Decode(good[i])]

\* the data of the native pictures that decode
GoodNative(pictures) ==
    LET Good(q) == ImageOk(q.data) IN DataOf(SelectSeq(pictures, Good))

\* the image data a load is to give: every image that decodes, of the
\* block values, then the native pictures, then the legacy values when the
\* container has no block entry
Decodable(f) ==
    (IF metadata_block_picture \in DOMAIN f.tags
     THEN GoodBlocks(f.tags[metadata_block_picture]) ELSE <<>>)
    \o (IF f.format = FLAC THEN GoodNative(f.pictures) ELSE <<>>)
    \o (IF metadata_block_picture \notin DOMAIN f.tags /\ coverart \in DOMAIN f.tags
        THEN GoodLegacy(f.tags[coverart]) ELSE <<>>)

\* C4: a load never fails on an image that cannot be decoded: it gives
\* every tag value and every image that can.
C4_DecodeFailuresNotFatal ==
    Last = "load" =>
        /\ out.status = "ok"
        /\ title \in DOMAIN out.fields /\ out.fields[title] = file.tags[title]
        /\ DataOf(out.images) = Decodable(file)

----------------------------------------------------------------------------
(* Detection *)

Classes == {OggFLACFile, OggSpeexFile, OggVorbisFile, OggTheoraFile}

\* the classes in the order of their names
ClassOrder == <<OggFLACFile, OggSpeexFile, OggTheoraFile, OggVorbisFile>>
Rank(name) == IndexIn(name, ClassOrder)

\* any list of up to MaxOptions different classes, each with a score
InitDetect ==
    /\ \E names \in SeqsUpTo(Classes, 0, MaxOptions) :
          /\ \A i, j \in 1..Len(names) : i # j => names[i] # names[j]
          /\ \E scores \in [1..Len(names) -> (0 - 1)..MaxScore] :
                options = [i \in 1..Len(names) |-> [name |-> names[i], score |-> scores[i]]]
    /\ selected = NoSelection
    /\ file = NoFile
    /\ md = NoMetadata
    /\ cfg = NoConfig
    /\ out = NoOutput
    /\ prevOut = NoOutput
    /\ prev = NoFile
    /\ hist = <<>>

NextDetect == Detect

SpecDetect == InitDetect /\ [][NextDetect]_vars

\* the positions of the candidates of the largest score
Best == {i \in 1..Len(options) : \A j \in 1..Len(options) : options[j].score <= options[i].score}
LastBest == CHOOSE i \in Best : \A j \in Best : j <= i
Failed == \A i \in 1..Len(options) : options[i].score <= 0

\* C3 as claimed: detection fails exactly when no score is positive, and
\* otherwise gives the candidate of the largest score that is last in the
\* candidate list.
C3_Detection ==
    selected.status # "none" =>
        /\ selected.status = "error" <=> Failed
        /\ selected.status = "ok" => selected.name = options[LastBest].name

\* C3 as amended: detection fails exactly when no score is positive, and
\* otherwise gives the candidate of the largest score whose class name is
\* the greatest; for candidates listed in the order of their names, as in
\* OggAudioFile, that is the last of them in the list.
C3_DetectionAmended ==
    selected.status # "none" =>
        /\ selected.status = "error" <=> Failed
        /\ selected.status = "ok" =>
              /\ \E i \in Best : options[i].name = selected.name
              /\ \A i \in Best : Rank(options[i].name) <= Rank(selected.name)
              /\ (\A i, j \in 1..Len(options) :
                     i < j => Rank(options[i].name) < Rank(options[j].name))
                 => selected.name = options[LastBest].name

\* the candidates of OggAudioFile scored (0, 5, 5)-like: the last two tie,
\* and the last is chosen
C3_Witness ==
    /\ selected.status = "ok"
    /\ [i \in 1..Len(options) |-> options[i].name] = OggAudioOptions
    /\ [i \in 1..Len(options) |-> options[i].score] = <<0, MaxScore, MaxScore>>
    /\ selected.name = OggVorbisFile

============================================================================
